---------------------------- MODULE Spec2Model ----------------------------
(***************************************************************************)
(* Product catalog: the in-memory TTL cache (app/core/cache.py), its key   *)
(* builder, and the product service that reads through the cache and       *)
(* invalidates it on writes (app/services/product_service.py).             *)
(*                                                                         *)
(* Three specifications share the variables:                               *)
(*   SpecKey    make_key as a function of its arguments                    *)
(*   SpecCache  AsyncTTLCache's operations, statement by statement         *)
(*   Spec       the service's requests, one action per stretch of code     *)
(*              between two suspension points (awaits on store I/O)        *)
(***************************************************************************)
EXTENDS Integers, Sequences, FiniteSets, TLC

VARIABLES
    now,     \* time.time(), in seconds
    store,   \* AsyncTTLCache._store: key -> _Entry
    lock,    \* AsyncTTLCache._lock: 0 when free, else the task holding it
    meta,    \* history: per stored key, how its entry came to be
    ctask,   \* SpecCache: the callers of the cache's operations
    db,      \* the relational store: departments, categories, products
    req,     \* Spec: the requests in flight
    hist,    \* history of completed writes and invalidations
    mk       \* SpecKey: the arguments and results of make_key

vars == <<now, store, lock, meta, ctask, db, req, hist, mk>>

(***************************************************************************)
(* Text.  Python strings are TLA+ strings; TLC evaluates Len, \o, Head,    *)
(* Tail and SubSeq on them.                                                *)
(***************************************************************************)

\* The characters of identifiers, in code point order (sorted() compares
\* strings by code point).
Ascii == "0123456789ABCDEFGHIJKLMNOPQRSTUVWXYZ_abcdefghijklmnopqrstuvwxyz"

CharCode(c) == CHOOSE i \in 1..Len(Ascii) : SubSeq(Ascii, i, i) = c

RECURSIVE StrLess(_, _)
StrLess(a, b) ==
    IF b = "" THEN FALSE
    ELSE IF a = "" THEN TRUE
    ELSE IF Head(a) = Head(b) THEN StrLess(Tail(a), Tail(b))
    ELSE CharCode(Head(a)) < CharCode(Head(b))

\* str.startswith
StartsWith(s, prefix) ==
    /\ Len(prefix) <= Len(s)
    /\ SubSeq(s, 1, Len(prefix)) = prefix

(***************************************************************************)
(* Python values that reach make_key, tagged by type.                      *)
(***************************************************************************)
None == [t |-> "none"]
PyInt(n) == [t |-> "int", v |-> n]
PyStrV(s) == [t |-> "str", v |-> s]
PyFloat(n) == [t |-> "float", v |-> n]     \* the float n.0

\* The mutant of Format: None formats as the empty string.
FormatNoneEmpty(v) ==
    CASE v.t = "none" -> ""
      [] v.t = "int" -> ToString(v.v)
      [] v.t = "float" -> ToString(v.v) \o ".0"
      [] v.t = "str" -> v.v

\* f"{value}": str() of the value.
Format(v) ==
    CASE v.t = "none" -> "None"
      [] v.t = "int" -> ToString(v.v)
      [] v.t = "float" -> ToString(v.v) \o ".0"
      [] v.t = "str" -> v.v

(***************************************************************************)
(* make_key(namespace, **params).  The keyword arguments arrive as a dict  *)
(* in call order: a sequence of <<name, value>> pairs with distinct names. *)
(***************************************************************************)
ParamNames(params) == {params[i][1] : i \in 1..Len(params)}

ParamValue(params, k) ==
    LET i == CHOOSE j \in 1..Len(params) : params[j][1] = k IN params[i][2]

MinName(S) == CHOOSE k \in S : \A o \in S : o = k \/ StrLess(k, o)

\* The mutant of SortedKeys: the names in call order, unsorted.
InsertionOrder(params) == [i \in 1..Len(params) |-> params[i][1]]

RECURSIVE SortNames(_)
SortNames(S) ==
    IF S = {} THEN <<>>
    ELSE LET k == MinName(S) IN <<k>> \o SortNames(S \ {k})

\* sorted(params.keys())
SortedKeys(params) == SortNames(ParamNames(params))

RECURSIVE JoinParts(_, _)
JoinParts(ks, params) ==
    IF ks = <<>> THEN ""
    ELSE "|" \o Head(ks) \o "=" \o Format(ParamValue(params, Head(ks)))
             \o JoinParts(Tail(ks), params)

make_key(namespace, params) ==
    namespace \o JoinParts(SortedKeys(params), params)

NS_PRODUCTS_LIST == "products:list"
NS_PRODUCTS_SUMMARY == "products:summary"
TTL_LIST == 60
TTL_SUMMARY == 120

\* The key list_products builds (product_service.py lines 60-64): r holds
\* the nine parameters; the Optional ones are None or a tagged value.
ListKey(r) ==
    make_key(NS_PRODUCTS_LIST,
        << <<"skip", PyInt(r.skip)>>, <<"limit", PyInt(r.limit)>>,
           <<"name", r.name>>, <<"min_price", r.min_price>>,
           <<"max_price", r.max_price>>, <<"sort_by", PyStrV(r.sort_by)>>,
           <<"sort_order", PyStrV(r.sort_order)>>,
           <<"category_id", r.category_id>>,
           <<"department_id", r.department_id>> >>)

\* The mutant of ReportKey: the report's name is not part of the key.
ReportKeyUnnamed(name) == make_key(NS_PRODUCTS_SUMMARY, << >>)

\* The key of a report (lines 183, 214, 247, 278).
ReportKey(name) == make_key(NS_PRODUCTS_SUMMARY, << <<"name", PyStrV(name)>> >>)

ReportNames ==
    {"avg_price_by_department", "total_stock_by_category",
     "count_products_by_department", "total_value_by_department"}

(***************************************************************************)
(* AsyncTTLCache: what each operation does to the mapping while it holds   *)
(* the lock.  A mapping is a function whose domain is the keys present.    *)
(***************************************************************************)
EmptyMap == [k \in {} |-> None]

Remove(st, key) == [k \in DOMAIN st \ {key} |-> st[k]]

Put(st, key, e) == [k \in DOMAIN st \cup {key} |-> IF k = key THEN e ELSE st[k]]

\* What get returns: None, or the stored value.
Some(value) == [t |-> "val", v |-> value]

\* The mutant of Expired: an entry is expired from its expiry instant on.
ExpiredAtInstant(entry, t) == entry.expires_at <= t

\* The mutant of Expired: entries never expire.
ExpiredNever(entry, t) == FALSE

\* cache.py line 24: the entry's expiry is before the clock value get read.
Expired(entry, t) == entry.expires_at < t

\* The mutant of GetReturn: an entry holding an empty result counts as
\* absent.
GetReturnEmptyAsNone(st, key, t) ==
    IF key \notin DOMAIN st THEN None
    ELSE IF Expired(st[key], t) THEN None
    ELSE IF Len(st[key].value) = 0 THEN None
    ELSE Some(st[key].value)

\* get, lines 21-28, with t the clock value read on line 19.
GetReturn(st, key, t) ==
    IF key \notin DOMAIN st THEN None
    ELSE IF Expired(st[key], t) THEN None
    ELSE Some(st[key].value)

\* The mutant of GetStore: get purges every expired entry it comes across.
GetStorePurgeAll(st, key, t) ==
    [k \in {j \in DOMAIN st : ~Expired(st[j], t)} |-> st[k]]

GetStore(st, key, t) ==
    IF key \in DOMAIN st /\ Expired(st[key], t) THEN Remove(st, key) ELSE st

\* The mutant of SetStore: an existing entry's later expiry is kept.
SetStoreKeepLater(st, key, value, expires_at) ==
    Put(st, key, [value |-> value,
                  expires_at |-> IF key \in DOMAIN st /\ st[key].expires_at > expires_at
                                 THEN st[key].expires_at ELSE expires_at])

\* set, line 33, with expires_at computed on line 31.
SetStore(st, key, value, expires_at) ==
    Put(st, key, [value |-> value, expires_at |-> expires_at])

\* invalidate, line 37.
InvalidateStore(st, key) == Remove(st, key)

\* The mutant of ToDelete: only the key equal to the prefix.
ToDeleteExact(st, prefix) == {k \in DOMAIN st : k = prefix}

\* invalidate_prefix, line 42.
ToDelete(st, prefix) == {k \in DOMAIN st : StartsWith(k, prefix)}

\* invalidate_prefix, lines 43-45: the mapping left, and the count returned.
InvalidatePrefixStore(st, prefix) ==
    [k \in DOMAIN st \ ToDelete(st, prefix) |-> st[k]]

\* The mutant of InvalidatePrefixReturn: the size of the mapping.
InvalidatePrefixReturnSize(st, prefix) == Cardinality(DOMAIN st)

InvalidatePrefixReturn(st, prefix) == Cardinality(ToDelete(st, prefix))

(***************************************************************************)
(* SpecKey: make_key applied to bounded arguments.                         *)
(***************************************************************************)
MaxParams == 3

KeyNames == {"b", "ab", "_a", "B"}
KeyValues == {None, PyInt(1)}
KeyPairs == {<<k, v>> : k \in KeyNames, v \in KeyValues}

\* Keyword arguments: at most MaxParams pairs with distinct names.
KeyParams ==
    {s \in UNION {[1..n -> KeyPairs] : n \in 0..MaxParams} :
        \A i, j \in 1..Len(s) : i # j => s[i][1] # s[j][1]}

\* The same pairs in another order.
Reorderings(s) ==
    {q \in [1..Len(s) -> {s[i] : i \in 1..Len(s)}] :
        {q[i] : i \in 1..Len(q)} = {s[i] : i \in 1..Len(s)}}

ListRequestsForKey ==
    [skip : {0, 1}, limit : {10},
     name : {None, PyStrV("None"), PyStrV("a"), PyStrV("a|skip=0|sort_by=id")},
     min_price : {None}, max_price : {None},
     sort_by : {"id", "id|skip=0|sort_by=id"}, sort_order : {"asc"},
     category_id : {None, PyInt(1)}, department_id : {None}]

MkIdle == [kind |-> "idle"]

\* make_key called twice with the same namespace and the same pairs.
KeyOfPermutation ==
    \E ns \in {NS_PRODUCTS_LIST, NS_PRODUCTS_SUMMARY}, p1 \in KeyParams :
      \E p2 \in Reorderings(p1) :
        /\ mk.kind = "idle"
        /\ mk' = [kind |-> "permuted", ns |-> ns, p1 |-> p1, p2 |-> p2,
                  k1 |-> make_key(ns, p1), k2 |-> make_key(ns, p2)]
        /\ UNCHANGED <<now, store, lock, meta, ctask, db, req, hist>>

\* list_products' key for two requests.
KeyOfListRequests ==
    \E r1, r2 \in ListRequestsForKey :
        /\ mk.kind = "idle"
        /\ mk' = [kind |-> "list", r1 |-> r1, r2 |-> r2,
                  k1 |-> ListKey(r1), k2 |-> ListKey(r2)]
        /\ UNCHANGED <<now, store, lock, meta, ctask, db, req, hist>>

NextKey == KeyOfPermutation \/ KeyOfListRequests

(***************************************************************************)
(* SpecCache: the cache's operations called directly, as the test fixture  *)
(* does.  A caller runs without giving way until it suspends, and nothing  *)
(* suspends inside an operation: asyncio's Lock.acquire returns at once    *)
(* when the lock is free, and no block under the lock awaits.  The clock   *)
(* is the world's: it may advance between any two statements.              *)
(***************************************************************************)
NumCallers == 2
MaxTime == 2

Callers == 1..NumCallers
CacheKeys == {"products:list|skip=0", "products:summary|name=a"}
CachePrefixes == {"", "products:list", "products:summary", "products:list|skip=0"}
CacheValues == {"v1", "v2"}
Ttls == {-1, 0, 1}

CIdle == [pc |-> "idle"]

\* No other caller is inside an operation.
Quiet(p) == \A q \in Callers \ {p} : ctask[q].pc = "idle"

\* get, line 19: the clock is read before the lock is taken.
CallGet(p, key) ==
    /\ ctask[p].pc = "idle" /\ Quiet(p)
    /\ ctask' = [ctask EXCEPT ![p] =
           [pc |-> "acquire", op |-> "get", key |-> key, clock |-> now]]
    /\ UNCHANGED <<now, store, lock, meta, db, req, hist, mk>>

\* set, line 31: the expiry is computed before the lock is taken.
CallSet(p, key, value, ttl) ==
    /\ ctask[p].pc = "idle" /\ Quiet(p)
    /\ ctask' = [ctask EXCEPT ![p] =
           [pc |-> "acquire", op |-> "set", key |-> key, value |-> value,
            ttl |-> ttl, clock |-> now, expires_at |-> now + ttl]]
    /\ UNCHANGED <<now, store, lock, meta, db, req, hist, mk>>

CallInvalidate(p, key) ==
    /\ ctask[p].pc = "idle" /\ Quiet(p)
    /\ ctask' = [ctask EXCEPT ![p] =
           [pc |-> "acquire", op |-> "invalidate", key |-> key]]
    /\ UNCHANGED <<now, store, lock, meta, db, req, hist, mk>>

CallInvalidatePrefix(p, prefix) ==
    /\ ctask[p].pc = "idle" /\ Quiet(p)
    /\ ctask' = [ctask EXCEPT ![p] =
           [pc |-> "acquire", op |-> "invalidate_prefix", key |-> prefix]]
    /\ UNCHANGED <<now, store, lock, meta, db, req, hist, mk>>

\* async with self._lock (lines 20, 32, 36, 41).
Acquire(p) ==
    /\ ctask[p].pc = "acquire"
    /\ lock = 0
    /\ lock' = p
    /\ ctask' = [ctask EXCEPT ![p].pc = "locked"]
    /\ UNCHANGED <<now, store, meta, db, req, hist, mk>>

\* get, lines 21-28, up to the return statement; the task record keeps what
\* get found for the properties below.
GetBody(p) ==
    LET c == ctask[p] IN
    /\ c.pc = "locked" /\ c.op = "get"
    /\ store' = GetStore(store, c.key, c.clock)
    /\ meta' = [k \in DOMAIN store' |-> meta[k]]
    /\ ctask' = [ctask EXCEPT ![p] =
           [pc |-> "exit", op |-> "get", key |-> c.key, clock |-> c.clock,
            at |-> now, ret |-> GetReturn(store, c.key, c.clock),
            entry |-> IF c.key \in DOMAIN store THEN store[c.key] ELSE None,
            set |-> IF c.key \in DOMAIN meta THEN meta[c.key] ELSE None]]
    /\ UNCHANGED <<now, lock, db, req, hist, mk>>

\* set, line 33.
SetBody(p) ==
    LET c == ctask[p] IN
    /\ c.pc = "locked" /\ c.op = "set"
    /\ store' = SetStore(store, c.key, c.value, c.expires_at)
    /\ meta' = Put(meta, c.key, [t0 |-> c.clock, ttl |-> c.ttl])
    /\ ctask' = [ctask EXCEPT ![p] =
           [pc |-> "exit", op |-> "set", key |-> c.key, before |-> store]]
    /\ UNCHANGED <<now, lock, db, req, hist, mk>>

\* invalidate, line 37.
InvalidateBody(p) ==
    LET c == ctask[p] IN
    /\ c.pc = "locked" /\ c.op = "invalidate"
    /\ store' = InvalidateStore(store, c.key)
    /\ meta' = [k \in DOMAIN store' |-> meta[k]]
    /\ ctask' = [ctask EXCEPT ![p] =
           [pc |-> "exit", op |-> "invalidate", key |-> c.key, before |-> store]]
    /\ UNCHANGED <<now, lock, db, req, hist, mk>>

\* invalidate_prefix, lines 42-45.
InvalidatePrefixBody(p) ==
    LET c == ctask[p] IN
    /\ c.pc = "locked" /\ c.op = "invalidate_prefix"
    /\ store' = InvalidatePrefixStore(store, c.key)
    /\ meta' = [k \in DOMAIN store' |-> meta[k]]
    /\ ctask' = [ctask EXCEPT ![p] =
           [pc |-> "exit", op |-> "invalidate_prefix", key |-> c.key,
            ret |-> InvalidatePrefixReturn(store, c.key), before |-> store]]
    /\ UNCHANGED <<now, lock, db, req, hist, mk>>

\* The mutant of Exit: the operation returns without releasing the lock.
ExitHolding(p) ==
    /\ ctask[p].pc = "exit"
    /\ ctask' = [ctask EXCEPT ![p] = CIdle]
    /\ UNCHANGED <<now, store, lock, meta, db, req, hist, mk>>

\* Leaving the async with block releases the lock; the operation returns.
Exit(p) ==
    /\ ctask[p].pc = "exit"
    /\ lock' = 0
    /\ ctask' = [ctask EXCEPT ![p] = CIdle]
    /\ UNCHANGED <<now, store, meta, db, req, hist, mk>>

\* The clock advances.
TickCache ==
    /\ now < MaxTime
    /\ now' = now + 1
    /\ UNCHANGED <<store, lock, meta, ctask, db, req, hist, mk>>

NextCache ==
    \/ \E p \in Callers, key \in CacheKeys : CallGet(p, key)
    \/ \E p \in Callers, key \in CacheKeys, value \in CacheValues, ttl \in Ttls :
           CallSet(p, key, value, ttl)
    \/ \E p \in Callers, key \in CacheKeys : CallInvalidate(p, key)
    \/ \E p \in Callers, prefix \in CachePrefixes : CallInvalidatePrefix(p, prefix)
    \/ \E p \in Callers : Acquire(p)
    \/ \E p \in Callers : GetBody(p)
    \/ \E p \in Callers : SetBody(p)
    \/ \E p \in Callers : InvalidateBody(p)
    \/ \E p \in Callers : InvalidatePrefixBody(p)
    \/ \E p \in Callers : Exit(p)
    \/ TickCache

(***************************************************************************)
(* The relational store.  Departments and categories are the reference     *)
(* data a catalogue starts from; products are what the service writes.     *)
(* Prices are Numeric(10, 2) amounts, counted here in whole units.         *)
(***************************************************************************)
Uppers == "ABCDEFGHIJKLMNOPQRSTUVWXYZ"
Lowers == "abcdefghijklmnopqrstuvwxyz"

LowerChar(c) ==
    IF \E i \in 1..Len(Uppers) : SubSeq(Uppers, i, i) = c
    THEN LET i == CHOOSE i \in 1..Len(Uppers) : SubSeq(Uppers, i, i) = c
         IN SubSeq(Lowers, i, i)
    ELSE c

RECURSIVE Lower(_)
Lower(s) == IF s = "" THEN "" ELSE LowerChar(SubSeq(s, 1, 1)) \o Lower(Tail(s))

\* SQL LIKE: % matches any run of characters, _ any one character.
RECURSIVE Like(_, _)
Like(s, pat) ==
    IF pat = "" THEN s = ""
    ELSE IF SubSeq(pat, 1, 1) = "%"
         THEN Like(s, Tail(pat)) \/ (s # "" /\ Like(Tail(s), pat))
    ELSE IF SubSeq(pat, 1, 1) = "_"
         THEN s # "" /\ Like(Tail(s), Tail(pat))
    ELSE s # "" /\ SubSeq(s, 1, 1) = SubSeq(pat, 1, 1) /\ Like(Tail(s), Tail(pat))

\* ILIKE compares without regard to case.
ILike(s, pat) == Like(Lower(s), Lower(pat))

SeedDepartments == [i \in {1, 2} |-> [name |-> IF i = 1 THEN "Men" ELSE "Women"]]
SeedCategories ==
    [i \in {1, 2} |-> [name |-> IF i = 1 THEN "Shirt" ELSE "Blouse",
                       department_id |-> i]]

\* Product's columns (app/models/product.py).
ProductColumns == {"id", "name", "description", "price", "stock", "category_id"}

\* What serialisation reads from a loaded product: its columns, its category
\* and the category's department (selectinload).
DepartmentRead(d, id) == [id |-> id, name |-> d.departments[id].name]

CategoryRead(d, id) ==
    [id |-> id, name |-> d.categories[id].name,
     department_id |-> d.categories[id].department_id,
     department |-> DepartmentRead(d, d.categories[id].department_id)]

ProductRead(d, id) ==
    LET p == d.products[id] IN
    [id |-> id, name |-> p.name, description |-> p.description,
     price |-> p.price, stock |-> p.stock, category_id |-> p.category_id,
     category |-> CategoryRead(d, p.category_id)]

\* list_products, lines 76-90: the WHERE clauses.
Matches(d, r, id) ==
    LET p == d.products[id] IN
    /\ (r.name # None /\ r.name.v # "") => ILike(p.name, "%" \o r.name.v \o "%")
    /\ r.min_price # None => p.price >= r.min_price.v
    /\ r.max_price # None => p.price <= r.max_price.v
    /\ r.category_id # None => p.category_id = r.category_id.v
    /\ r.department_id # None =>
           d.categories[p.category_id].department_id = r.department_id.v

\* Attributes the Product class has besides its columns: those it inherits
\* from DeclarativeBase (app/db/base.py).  They are not SQL expressions.
ProductClassAttributes == {"metadata", "registry"}

\* list_products, line 93: getattr(Product, sort_by, Product.id) gives the
\* attribute of that name when the class has one, else the id column.
SortColumn(sort_by) ==
    IF sort_by \in ProductColumns \cup ProductClassAttributes THEN sort_by
    ELSE "id"

\* list_products, line 94: asc() and desc() take a column; given anything
\* else they raise ArgumentError.
Orderable(sort_by) == SortColumn(sort_by) \in ProductColumns

\* Column order: numbers by value, text by code point, NULL after all text.
ValueLess(col, x, y) ==
    IF col = "name" THEN StrLess(x, y)
    ELSE IF col = "description"
         THEN x # None /\ (y = None \/ StrLess(x.v, y.v))
    ELSE x < y

\* list_products, line 94.  Rows equal in the sort column come in id order.
RowBefore(col, descending, a, b) ==
    IF a[col] = b[col] THEN a.id < b.id
    ELSE IF descending THEN ValueLess(col, b[col], a[col])
    ELSE ValueLess(col, a[col], b[col])

RECURSIVE OrderRows(_, _, _)
OrderRows(S, col, descending) ==
    IF S = {} THEN <<>>
    ELSE LET first == CHOOSE a \in S :
                 \A b \in S \ {a} : RowBefore(col, descending, a, b)
         IN <<first>> \o OrderRows(S \ {first}, col, descending)

\* list_products, line 97: OFFSET skip LIMIT limit.
Page(rows, skip, limit) ==
    SubSeq(rows, skip + 1, IF skip + limit < Len(rows) THEN skip + limit ELSE Len(rows))

\* list_products, lines 71-102: the query the store executes.
ListQuery(d, r) ==
    LET hits == {ProductRead(d, id) : id \in {i \in DOMAIN d.products : Matches(d, r, i)}}
    IN Page(OrderRows(hits, SortColumn(r.sort_by), r.sort_order = "desc"),
            r.skip, r.limit)

RECURSIVE SumOver(_, _)
SumOver(f, S) ==
    IF S = {} THEN 0
    ELSE LET x == CHOOSE x \in S : TRUE IN f[x] + SumOver(f, S \ {x})

RECURSIVE Gcd(_, _)
Gcd(a, b) == IF b = 0 THEN a ELSE Gcd(b, a % b)

\* AVG over a non-empty group, as a fraction in lowest terms.
Average(sum, count) ==
    [num |-> sum \div Gcd(sum, count), den |-> count \div Gcd(sum, count)]

DepartmentOfProduct(d, id) == d.categories[d.products[id].category_id].department_id

ProductsOfDepartment(d, dep) ==
    {id \in DOMAIN d.products : DepartmentOfProduct(d, id) = dep}

ProductsOfCategory(d, cat) ==
    {id \in DOMAIN d.products : d.products[id].category_id = cat}

\* Department LEFT JOIN Category LEFT JOIN Product: every department has a
\* group.
RECURSIVE DepartmentGroupsOuter(_, _)
DepartmentGroupsOuter(d, deps) ==
    IF deps = {} THEN <<>>
    ELSE LET first == CHOOSE dep \in deps : \A e \in deps : dep <= e
         IN <<first>> \o DepartmentGroupsOuter(d, deps \ {first})

\* ORDER BY Department.id over the groups of Department JOIN Category JOIN
\* Product: a department without a product has no group.
RECURSIVE DepartmentGroups(_, _)
DepartmentGroups(d, deps) ==
    LET joined == {dep \in deps : ProductsOfDepartment(d, dep) # {}} IN
    IF joined = {} THEN <<>>
    ELSE LET first == CHOOSE dep \in joined : \A e \in joined : dep <= e
         IN <<first>> \o DepartmentGroups(d, joined \ {first})

\* The mutant of CategoryGroups: ORDER BY Category.id alone.
RECURSIVE CategoryGroupsById(_, _)
CategoryGroupsById(d, cats) ==
    LET joined == {cat \in cats : ProductsOfCategory(d, cat) # {}} IN
    IF joined = {} THEN <<>>
    ELSE LET first == CHOOSE cat \in joined : \A e \in joined : cat <= e
         IN <<first>> \o CategoryGroupsById(d, joined \ {first})

\* ORDER BY Department.id, Category.id over the groups of Category JOIN
\* Department JOIN Product.
RECURSIVE CategoryGroups(_, _)
CategoryGroups(d, cats) ==
    LET joined == {cat \in cats : ProductsOfCategory(d, cat) # {}}
        dep(cat) == d.categories[cat].department_id
    IN
    IF joined = {} THEN <<>>
    ELSE LET first == CHOOSE cat \in joined : \A e \in joined :
                 dep(cat) < dep(e) \/ (dep(cat) = dep(e) /\ cat <= e)
         IN <<first>> \o CategoryGroups(d, joined \ {first})

\* avg_price_by_department, lines 189-202.
avg_price_by_department(d) ==
    LET groups == DepartmentGroups(d, DOMAIN d.departments) IN
    [i \in 1..Len(groups) |->
        LET ps == ProductsOfDepartment(d, groups[i]) IN
        [department_id |-> groups[i],
         department_name |-> d.departments[groups[i]].name,
         avg_price |-> Average(SumOver([id \in ps |-> d.products[id].price], ps),
                               Cardinality(ps))]]

\* total_stock_by_category, lines 220-235.
total_stock_by_category(d) ==
    LET groups == CategoryGroups(d, DOMAIN d.categories) IN
    [i \in 1..Len(groups) |->
        LET ps == ProductsOfCategory(d, groups[i])
            dep == d.categories[groups[i]].department_id
        IN
        [category_id |-> groups[i],
         category_name |-> d.categories[groups[i]].name,
         department_id |-> dep,
         department_name |-> d.departments[dep].name,
         total_stock |-> SumOver([id \in ps |-> d.products[id].stock], ps)]]

\* The mutant of count_products_by_department: the outer join, which counts
\* zero products for a department that has none.
count_products_outer_join(d) ==
    LET groups == DepartmentGroupsOuter(d, DOMAIN d.departments) IN
    [i \in 1..Len(groups) |->
        [department_id |-> groups[i],
         department_name |-> d.departments[groups[i]].name,
         product_count |-> Cardinality(ProductsOfDepartment(d, groups[i]))]]

\* count_products_by_department, lines 253-266.
count_products_by_department(d) ==
    LET groups == DepartmentGroups(d, DOMAIN d.departments) IN
    [i \in 1..Len(groups) |->
        [department_id |-> groups[i],
         department_name |-> d.departments[groups[i]].name,
         product_count |-> Cardinality(ProductsOfDepartment(d, groups[i]))]]

\* The mutant of total_value_by_department: the sum of the prices.
total_price_by_department(d) ==
    LET groups == DepartmentGroups(d, DOMAIN d.departments) IN
    [i \in 1..Len(groups) |->
        LET ps == ProductsOfDepartment(d, groups[i]) IN
        [department_id |-> groups[i],
         department_name |-> d.departments[groups[i]].name,
         total_value |-> SumOver([id \in ps |-> d.products[id].price], ps)]]

\* total_value_by_department, lines 284-297.
total_value_by_department(d) ==
    LET groups == DepartmentGroups(d, DOMAIN d.departments) IN
    [i \in 1..Len(groups) |->
        LET ps == ProductsOfDepartment(d, groups[i]) IN
        [department_id |-> groups[i],
         department_name |-> d.departments[groups[i]].name,
         total_value |->
             SumOver([id \in ps |-> d.products[id].price * d.products[id].stock], ps)]]

ReportQuery(d, name) ==
    CASE name = "avg_price_by_department" -> avg_price_by_department(d)
      [] name = "total_stock_by_category" -> total_stock_by_category(d)
      [] name = "count_products_by_department" -> count_products_by_department(d)
      [] name = "total_value_by_department" -> total_value_by_department(d)

(***************************************************************************)
(* Spec: the service's requests.  asyncio runs one task at a time and      *)
(* switches only where a task awaits store I/O, so an action is the        *)
(* stretch of a service function between two such awaits, or the store     *)
(* executing the statement a task waits for.  The cache's operations do    *)
(* not suspend (the lock is free whenever a task reaches it), so they run  *)
(* inside the stretch that calls them.                                     *)
(***************************************************************************)
NumTasks == 2
MaxWrites == 2
MaxReads == 2

Tasks == 1..NumTasks
ProductIds == 1..MaxWrites

\* The instants the clock is observed at: the start, just past the list
\* TTL and just past the summary TTL (also the list TTL after the second).
Instants == {0, TTL_LIST + 1, TTL_SUMMARY + 1}

DefaultList ==
    [skip |-> 0, limit |-> 10, name |-> None, min_price |-> None,
     max_price |-> None, sort_by |-> "id", sort_order |-> "asc",
     category_id |-> None, department_id |-> None]

ListRequests ==
    {DefaultList,
     [DefaultList EXCEPT !.name = PyStrV("O"), !.sort_order = "desc"]}

\* The list requests of SpecQuery: each filter, filters combined, a name
\* holding a LIKE wildcard, sort attributes that are and are not columns,
\* and a window inside the result.
QueryListRequests ==
    {DefaultList,
     [DefaultList EXCEPT !.name = PyStrV("E")],
     [DefaultList EXCEPT !.name = PyStrV("_")],
     [DefaultList EXCEPT !.min_price = PyFloat(10), !.max_price = PyFloat(20)],
     [DefaultList EXCEPT !.category_id = PyInt(1)],
     [DefaultList EXCEPT !.department_id = PyInt(1), !.min_price = PyFloat(20)],
     [DefaultList EXCEPT !.sort_by = "price", !.sort_order = "desc",
                         !.skip = 1, !.limit = 1],
     [DefaultList EXCEPT !.sort_by = "colour", !.sort_order = "desc"],
     [DefaultList EXCEPT !.sort_by = "metadata"]}

ProductCreates ==
    {[name |-> "Tee", description |-> None, price |-> 10, stock |-> 2,
      category_id |-> 1],
     [name |-> "Gown", description |-> PyStrV("long"), price |-> 30, stock |-> 1,
      category_id |-> 2]}

\* ProductUpdate.model_dump(exclude_unset=True): only the fields sent.
\* fields holds those sent with a value, nulls the names of the columns
\* declared NOT NULL that were sent as null.
ProductUpdates == {[fields |-> [stock |-> 2], nulls |-> {}]}

WriteKinds == {"create", "update", "delete"}
ReadKinds == {"list", "report"}

RIdle == [pc |-> "idle"]

\* The keys of the requests made here, computed once.
ListKeys == [r \in ListRequests \cup QueryListRequests |-> ListKey(r)]
ReportKeys == [name \in ReportNames |-> ReportKey(name)]

ReadKey(kind, args) == IF kind = "list" THEN ListKeys[args] ELSE ReportKeys[args]

\* The mutant of ReadTtl: the reports are cached with the list TTL.
ReadTtlList(kind) == TTL_LIST

ReadTtl(kind) == IF kind = "list" THEN TTL_LIST ELSE TTL_SUMMARY
ReadQuery(d, kind, args) ==
    IF kind = "list" THEN ListQuery(d, args) ELSE ReportQuery(d, args)

\* The mutants of InvalidateReadCaches: one namespace only, or none.
InvalidateListOnly(st) == InvalidatePrefixStore(st, NS_PRODUCTS_LIST)
InvalidateSummaryOnly(st) == InvalidatePrefixStore(st, NS_PRODUCTS_SUMMARY)
InvalidateNothing(st) == st

\* create_product lines 30-31, update_product 139-140, delete_product 159-160.
InvalidateReadCaches(st) ==
    InvalidatePrefixStore(InvalidatePrefixStore(st, NS_PRODUCTS_LIST),
                          NS_PRODUCTS_SUMMARY)

\* A new request runs as the first task not in use: tasks differ in name
\* only.
FirstFree(p) == req[p].pc = "idle" /\ \A q \in 1..(p - 1) : req[q].pc # "idle"

\* History kept when request p starts: whether requests have overlapped so
\* far, and while they have not, which keys were read since the last write
\* completed and which that write's invalidation dropped.
Started(p) ==
    IF hist.seq /\ \A q \in Tasks \ {p} : req[q].pc = "idle"
    THEN hist
    ELSE [hist EXCEPT !.seq = FALSE, !.written = FALSE, !.read = {},
                      !.dropped = {}]

\* list_products lines 60-100 and the reports' first lines: the key, the
\* cache lookup, the return on a hit; on a miss the query is built (which
\* raises when the sort attribute is not a column) and the task awaits
\* db.execute.
ReadStart(p, kind, args) ==
    LET key == ReadKey(kind, args)
        cached == GetReturn(store, key, now)
        h == Started(p)
        first == h.written /\ key \notin h.read
    IN
    /\ FirstFree(p)
    /\ hist.reads < MaxReads
    /\ store' = GetStore(store, key, now)
    /\ meta' = [k \in DOMAIN store' |-> meta[k]]
    /\ req' = [req EXCEPT ![p] =
           IF cached # None
           THEN [pc |-> "done", kind |-> kind, args |-> args, key |-> key,
                 hit |-> TRUE, result |-> cached.v, clock |-> now,
                 entry |-> meta[key], inval |-> hist.inval, first |-> first]
           ELSE IF kind = "list" /\ ~Orderable(args.sort_by)
           THEN [pc |-> "failed", kind |-> kind, args |-> args,
                 error |-> "ArgumentError"]
           ELSE [pc |-> "execute", kind |-> kind, args |-> args, key |-> key,
                 first |-> first]]
    /\ hist' = [h EXCEPT !.reads = hist.reads + 1,
                         !.read = IF h.written THEN h.read \cup {key} ELSE {}]
    /\ UNCHANGED <<now, lock, ctask, db, mk>>

ListStart(p, r) == ReadStart(p, "list", r)
ReportStart(p, name) == ReadStart(p, "report", name)

\* The store executes the query (line 100; lines 201, 234, 265, 296).
DbExecute(p) ==
    LET c == req[p] IN
    /\ c.pc = "execute"
    /\ req' = [req EXCEPT ![p] =
           [pc |-> "fetched", kind |-> c.kind, args |-> c.args, key |-> c.key,
            first |-> c.first, rows |-> ReadQuery(db, c.kind, c.args),
            qver |-> db.ver]]
    /\ UNCHANGED <<now, store, lock, meta, ctask, db, hist, mk>>

\* list_products lines 102-107 and the reports' last lines: the task
\* resumes with the rows, stores them under the key and returns them.
ReadResume(p) ==
    LET c == req[p] IN
    /\ c.pc = "fetched"
    /\ store' = SetStore(store, c.key, c.rows, now + ReadTtl(c.kind))
    /\ meta' = Put(meta, c.key, [ver |-> c.qver, born |-> hist.inval,
                                 t0 |-> now, ttl |-> ReadTtl(c.kind)])
    /\ req' = [req EXCEPT ![p] =
           [pc |-> "done", kind |-> c.kind, args |-> c.args, key |-> c.key,
            hit |-> FALSE, result |-> c.rows, clock |-> now, first |-> c.first]]
    /\ UNCHANGED <<now, lock, ctask, db, hist, mk>>

\* The constraints the products table enforces at flush: the unique name
\* and the foreign key to categories (app/models/product.py).
ConstraintsHold(d, id, p) ==
    /\ \A other \in DOMAIN d.products \ {id} : d.products[other].name # p.name
    /\ p.category_id \in DOMAIN d.categories

\* create_product lines 24-26: the product is added to the session and the
\* task awaits the commit.
CreateStart(p, product_in) ==
    /\ FirstFree(p)
    /\ hist.writes < MaxWrites
    /\ req' = [req EXCEPT ![p] =
           [pc |-> "commit", kind |-> "create", args |-> product_in]]
    /\ hist' = [Started(p) EXCEPT !.writes = hist.writes + 1]
    /\ UNCHANGED <<now, store, lock, meta, ctask, db, mk>>

\* update_product line 126, delete_product line 150: the task awaits the
\* lookup by id.
UpdateStart(p, product_id, product_in) ==
    /\ FirstFree(p)
    /\ hist.writes < MaxWrites
    /\ req' = [req EXCEPT ![p] =
           [pc |-> "lookup", kind |-> "update", id |-> product_id,
            args |-> product_in]]
    /\ hist' = [Started(p) EXCEPT !.writes = hist.writes + 1]
    /\ UNCHANGED <<now, store, lock, meta, ctask, db, mk>>

DeleteStart(p, product_id) ==
    /\ FirstFree(p)
    /\ hist.writes < MaxWrites
    /\ req' = [req EXCEPT ![p] =
           [pc |-> "lookup", kind |-> "delete", id |-> product_id]]
    /\ hist' = [Started(p) EXCEPT !.writes = hist.writes + 1]
    /\ UNCHANGED <<now, store, lock, meta, ctask, db, mk>>

\* The mutant of Lookup: the caches are invalidated before the product is
\* found to be absent.
LookupInvalidating(p) ==
    LET c == req[p] IN
    /\ c.pc = "lookup"
    /\ req' = [req EXCEPT ![p] =
           IF c.id \notin DOMAIN db.products
           THEN [pc |-> "done", kind |-> c.kind, id |-> c.id, found |-> FALSE,
                 committed |-> FALSE, invalidated |-> TRUE,
                 result |-> IF c.kind = "update" THEN None ELSE FALSE]
           ELSE IF c.kind = "update"
           THEN [pc |-> "commit", kind |-> "update", id |-> c.id,
                 args |-> c.args, loaded |-> db.products[c.id]]
           ELSE [pc |-> "commit", kind |-> "delete", id |-> c.id]]
    /\ store' = IF c.id \notin DOMAIN db.products
                THEN InvalidateReadCaches(store) ELSE store
    /\ meta' = [k \in DOMAIN store' |-> meta[k]]
    /\ UNCHANGED <<now, lock, ctask, db, hist, mk>>

\* get_product_by_id answers.  update_product lines 128-135: None when the
\* product is absent, else the fields sent are set on the loaded product
\* and the task awaits the commit.  delete_product lines 152-156: False
\* when absent, else the product is marked deleted and the task awaits
\* the commit.
Lookup(p) ==
    LET c == req[p] IN
    /\ c.pc = "lookup"
    /\ req' = [req EXCEPT ![p] =
           IF c.id \notin DOMAIN db.products
           THEN [pc |-> "done", kind |-> c.kind, id |-> c.id, found |-> FALSE,
                 committed |-> FALSE, invalidated |-> FALSE,
                 result |-> IF c.kind = "update" THEN None ELSE FALSE]
           ELSE IF c.kind = "update"
           THEN [pc |-> "commit", kind |-> "update", id |-> c.id,
                 args |-> c.args, loaded |-> db.products[c.id]]
           ELSE [pc |-> "commit", kind |-> "delete", id |-> c.id]]
    /\ UNCHANGED <<now, store, lock, meta, ctask, db, hist, mk>>

\* The mutant of Changed: a stock that was sent is not written.
ChangedButStock(c) ==
    ({f \in DOMAIN c.args.fields : c.args.fields[f] # c.loaded[f]} \cup c.args.nulls)
        \ {"stock"}

\* The fields of an update that differ from the loaded product: the only
\* ones the flush writes.
Changed(c) ==
    {f \in DOMAIN c.args.fields : c.args.fields[f] # c.loaded[f]} \cup c.args.nulls

\* The store executes the commit of a create: INSERT, or an integrity error
\* that leaves create_product and reaches the caller.
CommitCreate(p) ==
    LET c == req[p]
        id == db.next_id
    IN
    IF ConstraintsHold(db, id, c.args)
    THEN /\ db' = [db EXCEPT !.products =
                      [i \in DOMAIN db.products \cup {id} |->
                          IF i = id THEN c.args ELSE db.products[i]],
                   !.next_id = id + 1, !.ver = db.ver + 1]
         /\ req' = [req EXCEPT ![p] =
                [pc |-> "refresh", kind |-> "create", id |-> id,
                 ver |-> db.ver + 1]]
    ELSE /\ db' = db
         /\ req' = [req EXCEPT ![p] =
                [pc |-> "failed", kind |-> "create", error |-> "IntegrityError"]]

\* The commit of an update: nothing to write when no field differs; else
\* UPDATE ... WHERE id, which fails when the row is gone or a constraint
\* (NOT NULL, unique name, foreign key) is violated.
CommitUpdate(p) ==
    LET c == req[p]
        new == [f \in DOMAIN c.loaded |->
                   IF f \in Changed(c) \ c.args.nulls THEN c.args.fields[f] ELSE
                   IF c.id \in DOMAIN db.products THEN db.products[c.id][f]
                   ELSE c.loaded[f]]
    IN
    IF Changed(c) = {}
    THEN /\ db' = db
         /\ req' = [req EXCEPT ![p] =
                [pc |-> "refresh", kind |-> "update", id |-> c.id,
                 ver |-> db.ver]]
    ELSE IF /\ c.id \in DOMAIN db.products
            /\ c.args.nulls = {}
            /\ ConstraintsHold(db, c.id, new)
    THEN /\ db' = [db EXCEPT !.products[c.id] = new, !.ver = db.ver + 1]
         /\ req' = [req EXCEPT ![p] =
                [pc |-> "refresh", kind |-> "update", id |-> c.id,
                 ver |-> db.ver + 1]]
    ELSE /\ db' = db
         /\ req' = [req EXCEPT ![p] =
                [pc |-> "failed", kind |-> "update",
                 error |-> IF c.id \in DOMAIN db.products
                           THEN "IntegrityError" ELSE "StaleDataError"]]

\* The commit of a delete: DELETE ... WHERE id; a row already gone is not
\* an error.
CommitDelete(p) ==
    LET c == req[p] IN
    IF c.id \in DOMAIN db.products
    THEN /\ db' = [db EXCEPT !.products =
                      [i \in DOMAIN db.products \ {c.id} |-> db.products[i]],
                   !.ver = db.ver + 1]
         /\ req' = [req EXCEPT ![p] =
                [pc |-> "resume", kind |-> "delete", id |-> c.id,
                 ver |-> db.ver + 1]]
    ELSE /\ db' = db
         /\ req' = [req EXCEPT ![p] =
                [pc |-> "resume", kind |-> "delete", id |-> c.id,
                 ver |-> db.ver]]

\* The mutant of DbCommit: the caches are invalidated while the commit is
\* executed, whatever its outcome.
DbCommitInvalidating(p) ==
    /\ req[p].pc = "commit"
    /\ CASE req[p].kind = "create" -> CommitCreate(p)
         [] req[p].kind = "update" -> CommitUpdate(p)
         [] req[p].kind = "delete" -> CommitDelete(p)
    /\ store' = InvalidateReadCaches(store)
    /\ meta' = [k \in DOMAIN store' |-> meta[k]]
    /\ UNCHANGED <<now, lock, ctask, hist, mk>>

\* The store executes the commit a task awaits (lines 26, 135, 156).
DbCommit(p) ==
    /\ req[p].pc = "commit"
    /\ CASE req[p].kind = "create" -> CommitCreate(p)
         [] req[p].kind = "update" -> CommitUpdate(p)
         [] req[p].kind = "delete" -> CommitDelete(p)
    /\ UNCHANGED <<now, store, lock, meta, ctask, hist, mk>>

\* The store executes db.refresh(product) (lines 27, 136): a SELECT by
\* primary key; when the row is no longer there the error ends the request
\* before the invalidation.
DbRefresh(p) ==
    LET c == req[p] IN
    /\ c.pc = "refresh"
    /\ req' = [req EXCEPT ![p] =
           IF c.id \in DOMAIN db.products
           THEN [c EXCEPT !.pc = "resume"]
           ELSE RIdle]
    /\ UNCHANGED <<now, store, lock, meta, ctask, db, hist, mk>>

\* create_product lines 30-33, update_product 139-142, delete_product
\* 159-162: the task resumes after its last await, invalidates both
\* namespaces and returns.
WriteResume(p) ==
    LET c == req[p]
        n == hist.inval + 1
    IN
    /\ c.pc = "resume"
    /\ store' = InvalidateReadCaches(store)
    /\ meta' = [k \in DOMAIN store' |-> meta[k]]
    /\ req' = [req EXCEPT ![p] =
           [pc |-> "done", kind |-> c.kind, id |-> c.id, found |-> TRUE,
            committed |-> TRUE, invalidated |-> TRUE, ver |-> c.ver,
            removed_list |-> InvalidatePrefixReturn(store, NS_PRODUCTS_LIST),
            removed_summary |->
                InvalidatePrefixReturn(store, NS_PRODUCTS_SUMMARY)]]
    /\ hist' = [hist EXCEPT !.inval = n,
                            !.done = hist.done \cup {[ver |-> c.ver, n |-> n]},
                            !.clean = db.ver,
                            !.written = hist.seq,
                            !.read = {},
                            !.dropped = IF hist.seq THEN DOMAIN store \ DOMAIN store'
                                        ELSE {}]
    /\ UNCHANGED <<now, lock, ctask, db, mk>>

\* The mutant of Cancel: a read stores an empty page under its key before
\* it awaits the query, so an abandoned read leaves that page behind.
CancelAfterEarlySet(p) ==
    LET c == req[p] IN
    /\ c.pc \in {"execute", "fetched", "lookup", "commit", "refresh", "resume"}
    /\ req' = [req EXCEPT ![p] = RIdle]
    /\ store' = IF c.pc = "execute"
                THEN SetStore(store, c.key, <<>>, now + ReadTtl(c.kind))
                ELSE store
    /\ meta' = IF c.pc = "execute"
               THEN Put(meta, c.key, [ver |-> db.ver, born |-> hist.inval,
                                      t0 |-> now, ttl |-> ReadTtl(c.kind)])
               ELSE meta
    /\ UNCHANGED <<now, lock, ctask, db, hist, mk>>

\* The caller abandons the request while the task is suspended
\* (CancelledError at the await).  A commit the store has not executed is
\* rolled back with the session; one it has executed stays.
Cancel(p) ==
    LET c == req[p] IN
    /\ c.pc \in {"execute", "fetched", "lookup", "commit", "refresh", "resume"}
    /\ req' = [req EXCEPT ![p] = RIdle]
    /\ UNCHANGED <<now, store, lock, meta, ctask, db, hist, mk>>

\* The result, or the error the request ended with, has reached the caller.
Finish(p) ==
    /\ req[p].pc \in {"done", "failed"}
    /\ req' = [req EXCEPT ![p] = RIdle]
    /\ UNCHANGED <<now, store, lock, meta, ctask, db, hist, mk>>

\* The clock advances.
Tick ==
    /\ \E t \in Instants : t > now /\ now' = t
    /\ UNCHANGED <<store, lock, meta, ctask, db, req, hist, mk>>

Next ==
    \/ \E p \in Tasks, r \in ListRequests : ListStart(p, r)
    \/ \E p \in Tasks, name \in ReportNames : ReportStart(p, name)
    \/ \E p \in Tasks : DbExecute(p)
    \/ \E p \in Tasks : ReadResume(p)
    \/ \E p \in Tasks, product_in \in ProductCreates : CreateStart(p, product_in)
    \/ \E p \in Tasks, id \in ProductIds, product_in \in ProductUpdates :
           UpdateStart(p, id, product_in)
    \/ \E p \in Tasks, id \in ProductIds : DeleteStart(p, id)
    \/ \E p \in Tasks : Lookup(p)
    \/ \E p \in Tasks : DbCommit(p)
    \/ \E p \in Tasks : DbRefresh(p)
    \/ \E p \in Tasks : WriteResume(p)
    \/ \E p \in Tasks : Cancel(p)
    \/ \E p \in Tasks : Finish(p)
    \/ Tick

(***************************************************************************)
(* SpecApi: the product routes (app/api/product_routes.py) in front of the *)
(* service, one request at a time, with the inputs a client can send:      *)
(* references to categories that do not exist, negative amounts, fields    *)
(* sent as null.  FastAPI validates the body against the schema before     *)
(* the handler runs.                                                       *)
(***************************************************************************)
MaxCategories == 3
MaxDepartments == 3
MaxApiWrites == 3

ApiCreates ==
    {[name |-> "Tee", description |-> None, price |-> 10, stock |-> 2,
      category_id |-> 1],
     [name |-> "Gown", description |-> PyStrV("long"), price |-> 0, stock |-> 0,
      category_id |-> 3],
     [name |-> "Cap", description |-> None, price |-> -1, stock |-> 1,
      category_id |-> 1],
     [name |-> "Hat", description |-> None, price |-> 5, stock |-> -1,
      category_id |-> 2]}

ApiUpdates ==
    {[fields |-> [stock |-> 5], nulls |-> {}],
     [fields |-> [price |-> -1], nulls |-> {}],
     [fields |-> [description |-> PyStrV("new"), category_id |-> 2], nulls |-> {}],
     [fields |-> [category_id |-> 3], nulls |-> {}],
     [fields |-> [name |-> "Polo"], nulls |-> {"category_id"}]}

CategoryCreates == {[name |-> "Pants", department_id |-> 1]}

DepartmentCreates == {[name |-> "Kids"]}

\* ProductBase's validators (app/schemas/product.py lines 11-23); they are
\* declared on ProductBase, which ProductCreate extends and ProductUpdate
\* does not.
ValidCreate(product_in) == product_in.price >= 0 /\ product_in.stock >= 0

\* The mutant of CategoryExists: every reference is taken to resolve.
CategoryAssumed(d, id) == TRUE

\* get_category_by_id (app/services/category_service.py) finds a row.
CategoryExists(d, id) == id \in DOMAIN d.categories

\* POST /products/: the body is validated, then create (line 272) awaits
\* the lookup of the category.
RouteCreate(p, product_in) ==
    /\ FirstFree(p)
    /\ hist.writes < MaxApiWrites
    /\ req' = [req EXCEPT ![p] =
           IF ValidCreate(product_in)
           THEN [pc |-> "check", kind |-> "create", args |-> product_in]
           ELSE [pc |-> "failed", kind |-> "create", args |-> product_in,
                 error |-> "validation"]]
    /\ hist' = [Started(p) EXCEPT !.writes = hist.writes + 1]
    /\ UNCHANGED <<now, store, lock, meta, ctask, db, mk>>

\* PUT /products/{id}, lines 320-325: the category is looked up only when
\* category_id is not None; otherwise update_product is entered at once and
\* awaits the lookup of the product.
RouteUpdate(p, product_id, product_in) ==
    /\ FirstFree(p)
    /\ hist.writes < MaxApiWrites
    /\ req' = [req EXCEPT ![p] =
           [pc |-> IF "category_id" \in DOMAIN product_in.fields
                   THEN "check" ELSE "lookup",
            kind |-> "update", id |-> product_id, args |-> product_in]]
    /\ hist' = [Started(p) EXCEPT !.writes = hist.writes + 1]
    /\ UNCHANGED <<now, store, lock, meta, ctask, db, mk>>

\* DELETE /products/{id}, line 349: delete_product is entered and awaits the
\* lookup of the product.
RouteDelete(p, product_id) ==
    /\ FirstFree(p)
    /\ hist.writes < MaxApiWrites
    /\ req' = [req EXCEPT ![p] =
           [pc |-> "lookup", kind |-> "delete", id |-> product_id]]
    /\ hist' = [Started(p) EXCEPT !.writes = hist.writes + 1]
    /\ UNCHANGED <<now, store, lock, meta, ctask, db, mk>>

\* The category lookup answers (create lines 272-276, update lines
\* 321-325): 400 when there is no such category, else the service function
\* is entered and awaits its first store call.
CategoryCheck(p) ==
    LET c == req[p]
        category_id == IF c.kind = "create" THEN c.args.category_id
                       ELSE c.args.fields.category_id
    IN
    /\ c.pc = "check"
    /\ req' = [req EXCEPT ![p] =
           IF ~CategoryExists(db, category_id)
           THEN [pc |-> "failed", kind |-> c.kind, args |-> c.args,
                 error |-> "invalid_reference"]
           ELSE IF c.kind = "create"
           THEN [pc |-> "commit", kind |-> "create", args |-> c.args]
           ELSE [pc |-> "lookup", kind |-> "update", id |-> c.id,
                 args |-> c.args]]
    /\ UNCHANGED <<now, store, lock, meta, ctask, db, hist, mk>>

\* POST /categories/ (app/api/category_routes.py lines 20-43), from request
\* to response: the row is inserted when the department exists and has no
\* category of that name; the cache is not touched.
CreateCategory(category) ==
    LET id == Cardinality(DOMAIN db.categories) + 1 IN
    /\ \A p \in Tasks : req[p].pc = "idle"
    /\ id <= MaxCategories
    /\ category.department_id \in DOMAIN db.departments
    /\ \A i \in DOMAIN db.categories :
           ~(/\ db.categories[i].department_id = category.department_id
             /\ db.categories[i].name = category.name)
    /\ db' = [db EXCEPT !.categories =
                 [i \in DOMAIN db.categories \cup {id} |->
                     IF i = id THEN category ELSE db.categories[i]]]
    /\ UNCHANGED <<now, store, lock, meta, ctask, req, hist, mk>>

\* POST /departments/ (app/api/department_routes.py lines 19-32), from
\* request to response: the row is inserted when no department has the
\* name; the cache is not touched.
CreateDepartment(dept) ==
    LET id == Cardinality(DOMAIN db.departments) + 1 IN
    /\ \A p \in Tasks : req[p].pc = "idle"
    /\ id <= MaxDepartments
    /\ \A i \in DOMAIN db.departments : db.departments[i].name # dept.name
    /\ db' = [db EXCEPT !.departments =
                 [i \in DOMAIN db.departments \cup {id} |->
                     IF i = id THEN dept ELSE db.departments[i]]]
    /\ UNCHANGED <<now, store, lock, meta, ctask, req, hist, mk>>

NextApi ==
    \/ \E product_in \in ApiCreates : RouteCreate(1, product_in)
    \/ \E id \in ProductIds, product_in \in ApiUpdates :
           RouteUpdate(1, id, product_in)
    \/ \E id \in ProductIds : RouteDelete(1, id)
    \/ CategoryCheck(1)
    \/ Lookup(1)
    \/ DbCommit(1)
    \/ DbRefresh(1)
    \/ WriteResume(1)
    \/ \E category \in CategoryCreates : CreateCategory(category)
    \/ \E dept \in DepartmentCreates : CreateDepartment(dept)
    \/ \E r \in ListRequests : ListStart(1, r)
    \/ \E name \in ReportNames : ReportStart(1, name)
    \/ DbExecute(1)
    \/ ReadResume(1)
    \/ Finish(1)

(***************************************************************************)
(* SpecQuery: the catalogue is filled through the create routes, one       *)
(* request at a time, and read through list_products and the four reports. *)
(***************************************************************************)
QueryCreates ==
    {[name |-> "Tee", description |-> None, price |-> 10, stock |-> 2,
      category_id |-> 1],
     [name |-> "Top", description |-> PyStrV("long"), price |-> 30, stock |-> 3,
      category_id |-> 1],
     [name |-> "Polo", description |-> None, price |-> 20, stock |-> 0,
      category_id |-> 3],
     [name |-> "Gown", description |-> PyStrV("silk"), price |-> 25, stock |-> 1,
      category_id |-> 2]}

NextQuery ==
    \/ \E product_in \in QueryCreates : RouteCreate(1, product_in)
    \/ CategoryCheck(1)
    \/ DbCommit(1)
    \/ DbRefresh(1)
    \/ WriteResume(1)
    \/ \E category \in CategoryCreates : CreateCategory(category)
    \/ \E r \in QueryListRequests : ListStart(1, r)
    \/ \E name \in ReportNames : ReportStart(1, name)
    \/ DbExecute(1)
    \/ ReadResume(1)
    \/ Finish(1)

(***************************************************************************)
(* The initial state: the module-level cache is empty, no request is in    *)
(* flight, the store holds two departments with a category each (as the    *)
(* tests seed it) and no product.                                          *)
(***************************************************************************)
Init ==
    /\ now = 0
    /\ store = EmptyMap
    /\ lock = 0
    /\ meta = EmptyMap
    /\ ctask = [p \in Callers |-> CIdle]
    /\ db = [departments |-> SeedDepartments, categories |-> SeedCategories,
             products |-> EmptyMap, next_id |-> 1, ver |-> 0]
    /\ req = [p \in Tasks |-> RIdle]
    /\ hist = [inval |-> 0, done |-> {}, clean |-> 0, writes |-> 0, reads |-> 0,
               seq |-> TRUE, written |-> FALSE, read |-> {}, dropped |-> {}]
    /\ mk = MkIdle

SpecKey == Init /\ [][NextKey]_vars
SpecCache == Init /\ [][NextCache]_vars
Spec == Init /\ [][Next]_vars
SpecApi == Init /\ [][NextApi]_vars
SpecQuery == Init /\ [][NextQuery]_vars

(***************************************************************************)
(* Properties of make_key (SpecKey).                                       *)
(***************************************************************************)

\* C6: for every namespace and every two parameter mappings holding the same
\* name-to-value pairs supplied in different orders, make_key returns the
\* identical key string.
C6_KeyOrderIndependent ==
    mk.kind = "permuted" => mk.k1 = mk.k2

C6_Witness ==
    /\ mk.kind = "permuted"
    /\ Len(mk.p1) >= 2
    /\ mk.p1 # mk.p2
    /\ mk.k1 = mk.k2

\* C7: two list requests whose parameter values differ in any of the nine
\* parameters never produce the same cache key.
C7_ListKeysDistinct ==
    (mk.kind = "list" /\ mk.r1 # mk.r2) => mk.k1 # mk.k2

(***************************************************************************)
(* Properties of the cache's operations (SpecCache).                       *)
(***************************************************************************)

\* C8: for an entry stored by set(key, value, T) at time t0 and still the
\* key's entry, get(key) at time t returns the value when t - t0 < T and
\* absent when t - t0 >= T, including exactly at t - t0 = T.
C8_TtlContract ==
    \A p \in Callers :
        LET c == ctask[p] IN
        (c.pc = "exit" /\ c.op = "get" /\ c.set # None) =>
            IF c.clock - c.set.t0 < c.set.ttl
            THEN c.ret = Some(c.entry.value)
            ELSE c.ret = None

\* C9: at the instant a get call returns a value, the current time is not
\* later than that entry's expires-at.
C9_NotReturnedAfterExpiry ==
    \A p \in Callers :
        LET c == ctask[p] IN
        (c.pc = "exit" /\ c.op = "get" /\ c.ret # None) =>
            c.at <= c.entry.expires_at

\* C10: after invalidate_prefix(p) no key that starts with p is retrievable,
\* every unexpired key that does not start with p is still retrievable with
\* its value and expiry unchanged, and with the empty prefix the cache is
\* left with no entries at all.
C10_PrefixInvalidationFrame ==
    \A p \in Callers :
        LET c == ctask[p] IN
        (c.pc = "exit" /\ c.op = "invalidate_prefix") =>
            /\ \A k \in CacheKeys, t \in 0..MaxTime :
                   StartsWith(k, c.key) => GetReturn(store, k, t) = None
            /\ \A k \in DOMAIN c.before, t \in 0..MaxTime :
                   (~StartsWith(k, c.key) /\ GetReturn(c.before, k, t) # None) =>
                       /\ k \in DOMAIN store
                       /\ GetReturn(store, k, t) = Some(c.before[k].value)
                       /\ store[k].expires_at = c.before[k].expires_at
            /\ c.key = "" => DOMAIN store = {}

C10_Witness ==
    \E p \in Callers :
        LET c == ctask[p] IN
        /\ c.pc = "exit" /\ c.op = "invalidate_prefix"
        /\ c.key # ""
        /\ c.ret >= 1
        /\ \E k \in DOMAIN store : GetReturn(store, k, now) # None

(***************************************************************************)
(* Properties of the service (Spec).                                       *)
(***************************************************************************)

\* C1: while requests have not overlapped, the first list or report
\* requested under a key after a product write has completed returns what
\* its query gives on the store as the write left it, also when the key was
\* cached before the write.
C1_FirstReadAfterWriteIsFresh ==
    \A p \in Tasks :
        (/\ req[p].pc = "done"
         /\ req[p].kind \in ReadKinds
         /\ req[p].first
         /\ hist.seq)
            => req[p].result = ReadQuery(db, req[p].kind, req[p].args)

C1_Witness ==
    \E p \in Tasks :
        /\ req[p].pc = "done"
        /\ req[p].kind \in ReadKinds
        /\ req[p].first
        /\ hist.seq
        /\ req[p].key \in hist.dropped
        /\ req[p].result # <<>>
        /\ req[p].result = ReadQuery(db, req[p].kind, req[p].args)

\* C2 as stated: once a product write has returned, the cache holds no list
\* or summary entry computed from the store as it was before that write,
\* whatever reads overlapped the write.
C2_NoPreWriteEntryAfterReturn ==
    \A k \in DOMAIN store : \A w \in hist.done : meta[k].ver >= w.ver

\* C2 amended: once a product write has returned, an entry computed from
\* the store as it was before that write is in the cache only if it was
\* stored after that write's invalidation ran; every entry stored before
\* the invalidation is gone.
C2_PreWriteEntryOnlyIfStoredAfterInvalidation ==
    \A k \in DOMAIN store : \A w \in hist.done :
        meta[k].ver < w.ver => meta[k].born >= w.n

C2_Witness ==
    \E k \in DOMAIN store : \E w \in hist.done :
        /\ meta[k].ver < w.ver
        /\ meta[k].born >= w.n
        /\ \A p \in Tasks : req[p].pc = "idle"

\* C3: a request is served an entry that was computed before a write and
\* stored after that write's invalidation only if no invalidation has run
\* since the entry was stored and the request's lookup is made no later
\* than 60 seconds (a list page) or 120 seconds (a report) after the entry
\* was stored.
C3_StaleEntryServedWithinBounds ==
    \A p \in Tasks :
        (/\ req[p].pc = "done"
         /\ req[p].kind \in ReadKinds
         /\ req[p].hit
         /\ \E w \in hist.done :
                req[p].entry.ver < w.ver /\ req[p].entry.born >= w.n)
            => /\ req[p].entry.born = req[p].inval
               /\ req[p].clock <= req[p].entry.t0
                                    + (IF req[p].kind = "list" THEN 60 ELSE 120)

C3_Witness ==
    \E p \in Tasks :
        /\ req[p].pc = "done"
        /\ req[p].kind \in ReadKinds
        /\ req[p].hit
        /\ \E w \in hist.done :
               req[p].entry.ver < w.ver /\ req[p].entry.born >= w.n
        /\ req[p].clock > req[p].entry.t0
        /\ req[p].result # ReadQuery(db, req[p].kind, req[p].args)

\* C4: the step in which create_product, update_product or delete_product
\* runs its invalidation after its commit leaves the cache with no key
\* that starts with products:list and none that starts with
\* products:summary.
C4_NamespacesEmptyAfterInvalidation ==
    [][\A p \in Tasks :
           (req[p].pc = "resume" /\ req'[p].pc = "done")
               => \A k \in DOMAIN store' :
                      /\ ~StartsWith(k, "products:list")
                      /\ ~StartsWith(k, "products:summary")]_vars

C4_Witness ==
    \E p \in Tasks :
        /\ req[p].pc = "done"
        /\ req[p].kind \in {"update", "delete"}
        /\ req[p].invalidated
        /\ req[p].removed_list >= 1
        /\ req[p].removed_summary >= 1
        /\ DOMAIN store = {}

\* C5: when no request is in flight, every commit of a product write that
\* changed the store has been followed by an invalidation of both
\* namespaces.
C5_CommitFollowedByInvalidation ==
    (\A p \in Tasks : req[p].pc = "idle") => hist.clean = db.ver

(***************************************************************************)
(* Claims about the product routes, checked under SpecApi.                 *)
(***************************************************************************)

\* C11: a create whose category_id references no existing category is
\* answered with the invalid-reference error while the store is left as it
\* was, no such create ever reaches the commit, and every stored product's
\* category_id references an existing category.
C11_CreateRejectsMissingCategory ==
    /\ [](/\ \A id \in DOMAIN db.products :
                 db.products[id].category_id \in DOMAIN db.categories
          /\ \A p \in Tasks :
                 (req[p].pc = "commit" /\ req[p].kind = "create")
                     => req[p].args.category_id \in DOMAIN db.categories)
    /\ [][\A p \in Tasks :
            (/\ req[p].pc = "check"
             /\ req[p].kind = "create"
             /\ req[p].args.category_id \notin DOMAIN db.categories)
                => /\ req'[p].pc = "failed"
                   /\ req'[p].error = "invalid_reference"
                   /\ db' = db
                   /\ store' = store]_vars

C11_Witness ==
    \E p \in Tasks :
        /\ req[p].pc = "failed"
        /\ req[p].kind = "create"
        /\ req[p].error = "invalid_reference"
        /\ req[p].args.category_id \notin DOMAIN db.categories
        /\ db.products # EmptyMap

\* C12: every category_id value supplied in an update that does not resolve
\* to an existing category is rejected by the route's check, so no update
\* carrying such a value is ever handed to the store's commit.
C12_UpdateRejectsUnresolvedCategory ==
    \A p \in Tasks :
        (req[p].pc = "commit" /\ req[p].kind = "update")
            => /\ "category_id" \notin req[p].args.nulls
               /\ "category_id" \in DOMAIN req[p].args.fields
                      => CategoryExists(db, req[p].args.fields.category_id)

\* C13: a negative price or a negative stock never reaches the store, on
\* create or on update: every stored product has price >= 0 and stock >= 0.
C13_StoredAmountsNonNegative ==
    \A id \in DOMAIN db.products :
        db.products[id].price >= 0 /\ db.products[id].stock >= 0

C15_NotFoundChangesNothing ==
    [][\A p \in Tasks :
        (/\ req[p].pc = "lookup"
         /\ req[p].id \notin DOMAIN db.products)
            => /\ req'[p].pc = "done"
               /\ req'[p].kind = req[p].kind
               /\ ~req'[p].found
               /\ IF req[p].kind = "update"
                  THEN req'[p].result = None
                  ELSE req'[p].result = FALSE
               /\ db' = db
               /\ store' = store
               /\ meta' = meta]_vars

C15_Witness ==
    \E p \in Tasks :
        /\ req[p].pc = "done"
        /\ req[p].kind \in {"update", "delete"}
        /\ ~req[p].found
        /\ store # EmptyMap
        /\ db.products # EmptyMap

(***************************************************************************)
(* Claims about the queries, checked under SpecQuery.  Requests do not     *)
(* overlap there, so the store a finished read is compared with is the     *)
(* store its query ran on.                                                 *)
(***************************************************************************)
RECURSIVE Contains(_, _)
Contains(s, sub) ==
    \/ StartsWith(s, sub)
    \/ s # "" /\ Contains(Tail(s), sub)

\* The filters as the claim states them.
SatisfiesFilters(d, r, id) ==
    LET p == d.products[id] IN
    /\ r.name # None => Contains(Lower(p.name), Lower(r.name.v))
    /\ r.min_price # None => p.price >= r.min_price.v
    /\ r.max_price # None => p.price <= r.max_price.v
    /\ r.category_id # None => p.category_id = r.category_id.v
    /\ r.department_id # None =>
           d.categories[p.category_id].department_id = r.department_id.v

\* C16: on a miss list_products returns only products that satisfy every
\* supplied filter (name contains the substring ignoring case, price within
\* the inclusive bounds, the category, the category's department), each
\* once, and as many of them as the skip/limit window admits.
C16_ListReturnsTheMatchingProducts ==
    \A p \in Tasks :
        (req[p].pc = "done" /\ req[p].kind = "list" /\ ~req[p].hit)
            => LET r == req[p].args
                   rows == req[p].result
                   match == {id \in DOMAIN db.products : SatisfiesFilters(db, r, id)}
                   rest == IF Cardinality(match) > r.skip
                           THEN Cardinality(match) - r.skip ELSE 0
               IN
               /\ \A i \in 1..Len(rows) :
                      rows[i].id \in match /\ rows[i] = ProductRead(db, rows[i].id)
               /\ \A i, j \in 1..Len(rows) : rows[i].id = rows[j].id => i = j
               /\ Len(rows) = IF rest < r.limit THEN rest ELSE r.limit

\* C17: a list request whose sort_by is not the name of a product field
\* does not raise, and on a miss its page is ordered by id (in the
\* direction asked for); the request with no filter and the default sort
\* returns, on a miss, the first products of the whole table in ascending
\* id order.
C17_UnknownSortFallsBackToId ==
    \A p \in Tasks :
        /\ (req[p].pc = "failed" /\ req[p].kind = "list")
               => req[p].args.sort_by \in ProductColumns
        /\ (/\ req[p].pc = "done"
            /\ req[p].kind = "list"
            /\ ~req[p].hit
            /\ req[p].args.sort_by \notin ProductColumns)
               => \A i, j \in 1..Len(req[p].result) :
                      i < j => IF req[p].args.sort_order = "desc"
                               THEN req[p].result[i].id > req[p].result[j].id
                               ELSE req[p].result[i].id < req[p].result[j].id
        /\ (/\ req[p].pc = "done"
            /\ req[p].kind = "list"
            /\ ~req[p].hit
            /\ req[p].args = DefaultList)
               => /\ Len(req[p].result) = Cardinality(DOMAIN db.products)
                  /\ \A i \in 1..Len(req[p].result) :
                         req[p].result[i] = ProductRead(db, i)

\* A report answered by its query: request p has finished the report name
\* on a cache miss.
ReportMiss(p, name) ==
    /\ req[p].pc = "done"
    /\ req[p].kind = "report"
    /\ ~req[p].hit
    /\ req[p].args = name

\* The products whose category belongs to department dep.
InDepartment(dep) ==
    {id \in DOMAIN db.products :
        \E cat \in DOMAIN db.categories :
            /\ db.products[id].category_id = cat
            /\ db.categories[cat].department_id = dep}

\* C18: on a miss count_products_by_department has one row for each
\* department with at least one product and none for any other, in
\* ascending department id order, and a row's product_count is the number
\* of products whose category belongs to the department.
C18_CountByDepartment ==
    \A p \in Tasks :
        ReportMiss(p, "count_products_by_department")
            => LET rows == req[p].result IN
               /\ {rows[i].department_id : i \in 1..Len(rows)} =
                      {dep \in DOMAIN db.departments : InDepartment(dep) # {}}
               /\ \A i, j \in 1..Len(rows) :
                      i < j => rows[i].department_id < rows[j].department_id
               /\ \A i \in 1..Len(rows) :
                      /\ rows[i].product_count =
                             Cardinality(InDepartment(rows[i].department_id))
                      /\ rows[i].department_name =
                             db.departments[rows[i].department_id].name

C18_Witness ==
    \E p \in Tasks :
        /\ ReportMiss(p, "count_products_by_department")
        /\ Len(req[p].result) = 1
        /\ req[p].result[1].product_count = 2
        /\ \E id, other \in DOMAIN db.products :
               db.products[id].category_id # db.products[other].category_id

C20_ValueByDepartment ==
    \A p \in Tasks :
        ReportMiss(p, "total_value_by_department")
            => LET rows == req[p].result IN
               /\ {rows[i].department_id : i \in 1..Len(rows)} =
                      {dep \in DOMAIN db.departments : InDepartment(dep) # {}}
               /\ \A i, j \in 1..Len(rows) :
                      i < j => rows[i].department_id < rows[j].department_id
               /\ \A i \in 1..Len(rows) :
                      rows[i].total_value =
                          SumOver([id \in InDepartment(rows[i].department_id) |->
                                      db.products[id].price * db.products[id].stock],
                                  InDepartment(rows[i].department_id))

C20_Witness ==
    \E p \in Tasks :
        /\ ReportMiss(p, "total_value_by_department")
        /\ Len(req[p].result) = 1
        /\ req[p].result[1].department_id = 1
        /\ req[p].result[1].total_value = 110
        /\ \E cat \in DOMAIN db.categories : db.categories[cat].department_id = 2

(***************************************************************************)
(* Claims about the writes to departments and categories (SpecApi).        *)
(***************************************************************************)

\* C21: the step in which a department or a category is created leaves the
\* cache with no key under the list namespace and none under the summary
\* namespace.
C21_CatalogueCreatesInvalidate ==
    [][(db'.departments # db.departments \/ db'.categories # db.categories)
          => \A k \in DOMAIN store' :
                 /\ ~StartsWith(k, NS_PRODUCTS_LIST)
                 /\ ~StartsWith(k, NS_PRODUCTS_SUMMARY)]_vars

(***************************************************************************)
(* Further properties of the cache's operations (SpecCache).               *)
(***************************************************************************)

\* A caller is inside its access to the mapping: between taking the lock
\* and leaving the async with block.
Inside(p) == ctask[p].pc \in {"locked", "exit"}

C23_OnlyFinishedQueriesAreCached ==
    [][/\ \A p \in Tasks :
              (req[p].pc \in {"execute", "fetched"} /\ req'[p].pc = "idle")
                  => store' = store
       /\ \A k \in DOMAIN store' :
              (k \notin DOMAIN store \/ store'[k] # store[k])
                  => \E p \in Tasks :
                         /\ req[p].pc = "fetched"
                         /\ req[p].key = k
                         /\ req'[p].pc = "done"
                         /\ store'[k].value = req[p].rows
       /\ \A p \in Tasks :
              (req'[p].pc = "fetched" /\ req[p].pc # "fetched")
                  => /\ req[p].pc = "execute"
                     /\ req'[p].rows = ReadQuery(db, req[p].kind, req[p].args)]_vars

\* The one read made so far was abandoned: no request is in progress,
\* nothing was written to the store, and the cache is empty.
C23_Witness ==
    /\ hist.reads = 1
    /\ hist.writes = 0
    /\ \A p \in Tasks : req[p].pc = "idle"
    /\ store = EmptyMap

\* C24: a product write changes no cache entry while it awaits its lookup,
\* its commit or its refresh; a commit that fails changes neither the store
\* nor the cache and ends the request with the error; and a key leaves the
\* cache only in the step in which a write whose commit succeeded runs its
\* invalidation, or in the lookup of a read.
C24_NoInvalidationWithoutCommit ==
    [][/\ \A p \in Tasks :
              (req[p].pc \in {"lookup", "commit", "refresh"} /\ req'[p] # req[p])
                  => store' = store /\ meta' = meta
       /\ \A p \in Tasks :
              (req[p].pc = "commit"
                  /\ req'[p].pc \notin {"commit", "refresh", "resume", "idle"})
                  => /\ req'[p].pc = "failed"
                     /\ req'[p].error \in {"IntegrityError", "StaleDataError"}
                     /\ db' = db
       /\ (DOMAIN store \ DOMAIN store' # {})
              => \E p \in Tasks :
                     \/ req[p].pc = "resume" /\ req'[p].pc = "done"
                     \/ req[p].pc = "idle" /\ req'[p].pc \in {"execute", "failed"}]_vars

C24_Witness ==
    \E p \in Tasks :
        /\ req[p].pc = "failed"
        /\ req[p].kind \in WriteKinds
        /\ req[p].error \in {"IntegrityError", "StaleDataError"}
        /\ store # EmptyMap

\* C25: a list or report request whose lookup finds an unexpired entry
\* returns that entry's value and never queries the store; one whose lookup
\* finds none awaits its query, and when it resumes it stores the rows of
\* the query under its key with expiry 60 seconds (a list page) or 120
\* seconds (a report) from then, changes no other entry, and returns the
\* same rows.  The key of a list request names all nine parameters.
C25_HitServesCacheMissFillsIt ==
    /\ [](ListKeys[DefaultList] =
              "products:list|category_id=None|department_id=None|limit=10|max_price=None|min_price=None|name=None|skip=0|sort_by=id|sort_order=asc")
    /\ [][\A p \in Tasks :
            /\ (req[p].pc = "idle" /\ req'[p].pc # "idle"
                    /\ req'[p].kind \in ReadKinds)
                   => LET key == ReadKey(req'[p].kind, req'[p].args) IN
                      IF GetReturn(store, key, now) # None
                      THEN /\ req'[p].pc = "done"
                           /\ req'[p].hit
                           /\ req'[p].result = store[key].value
                           /\ store' = store
                      ELSE /\ req'[p].pc = "execute"
                           /\ req'[p].key = key
            /\ (req'[p].pc = "fetched" /\ req[p].pc # "fetched")
                   => /\ req[p].pc = "execute"
                      /\ req'[p].rows = ReadQuery(db, req[p].kind, req[p].args)
            /\ (req[p].pc = "fetched" /\ req'[p].pc \notin {"fetched", "idle"})
                   => /\ req'[p].pc = "done"
                      /\ ~req'[p].hit
                      /\ req'[p].result = req[p].rows
                      /\ DOMAIN store' = DOMAIN store \cup {req[p].key}
                      /\ store'[req[p].key] =
                             [value |-> req[p].rows,
                              expires_at |-> now + (IF req[p].kind = "list"
                                                    THEN 60 ELSE 120)]
                      /\ \A k \in DOMAIN store \ {req[p].key} :
                             store'[k] = store[k]]_vars

\* A report stored at time 0 is served from the cache after the list TTL
\* has passed.
C25_Witness ==
    \E p \in Tasks :
        /\ req[p].pc = "done"
        /\ req[p].kind = "report"
        /\ req[p].hit
        /\ req[p].entry.t0 = 0
        /\ req[p].clock = 61
        /\ Len(req[p].result) > 0

(***************************************************************************)
(* Further claims about the queries (SpecQuery).                           *)
(***************************************************************************)

\* C26: the four reports have four different keys, each under the summary
\* namespace and none under the list namespace; while no write is in
\* progress every report key present holds the rows of its own report, and
\* a report served from the cache gets those rows; invalidating the list
\* namespace removes no summary key and invalidating the summary namespace
\* removes no list key.
C26_ReportsCachedApart ==
    /\ \A n1, n2 \in ReportNames : ReportKeys[n1] = ReportKeys[n2] => n1 = n2
    /\ \A n \in ReportNames :
           /\ StartsWith(ReportKeys[n], NS_PRODUCTS_SUMMARY)
           /\ ~StartsWith(ReportKeys[n], NS_PRODUCTS_LIST)
           /\ \A r \in DOMAIN ListKeys : ListKeys[r] # ReportKeys[n]
    /\ (\A p \in Tasks : req[p].pc # "idle" => req[p].kind \in ReadKinds)
           => /\ \A n \in ReportNames :
                     ReportKeys[n] \in DOMAIN store
                         => store[ReportKeys[n]].value = ReportQuery(db, n)
              /\ \A p \in Tasks :
                     (req[p].pc = "done" /\ req[p].kind = "report" /\ req[p].hit)
                         => req[p].result = ReportQuery(db, req[p].args)
    /\ \A k \in DOMAIN store :
           /\ StartsWith(k, NS_PRODUCTS_SUMMARY)
                  => k \in DOMAIN InvalidatePrefixStore(store, NS_PRODUCTS_LIST)
           /\ StartsWith(k, NS_PRODUCTS_LIST)
                  => k \in DOMAIN InvalidatePrefixStore(store, NS_PRODUCTS_SUMMARY)

C26_Witness ==
    /\ \A p \in Tasks : req[p].pc = "idle"
    /\ \E n1, n2 \in ReportNames :
           /\ n1 # n2
           /\ ReportKeys[n1] \in DOMAIN store
           /\ ReportKeys[n2] \in DOMAIN store
           /\ store[ReportKeys[n1]].value # store[ReportKeys[n2]].value

\* C27: get(key) on an entry whose expiry is before the time get read
\* removes that entry, leaves every other entry as it was and returns
\* absent; when the key is missing or its entry is not expired, get leaves
\* the whole mapping as it was (and returns absent, respectively the
\* entry's value).
C27_GetFrame ==
    [][\A p \in Callers :
        (/\ ctask[p].pc = "locked"
         /\ ctask[p].op = "get"
         /\ ctask'[p].pc = "exit")
            => LET key == ctask[p].key IN
               IF key \in DOMAIN store /\ store[key].expires_at < ctask[p].clock
               THEN /\ ctask'[p].ret = None
                    /\ DOMAIN store' = DOMAIN store \ {key}
                    /\ \A k \in DOMAIN store' : store'[k] = store[k]
               ELSE /\ store' = store
                    /\ ctask'[p].ret = IF key \in DOMAIN store
                                       THEN Some(store[key].value) ELSE None]_vars

C27_Witness ==
    \E p \in Callers :
        /\ ctask[p].pc = "exit"
        /\ ctask[p].op = "get"
        /\ ctask[p].entry # None
        /\ ctask[p].ret = None
        /\ ctask[p].key \notin DOMAIN store
        /\ \E k \in DOMAIN store : store[k].expires_at < ctask[p].clock

\* C28: set(key, value, ttl) leaves under key an entry with the new value
\* and expiry equal to the time set read plus ttl, whatever entry was there
\* before, and changes no other key's entry; a get of the key that returns
\* anything afterwards returns the new value, and does so at every time
\* before the new expiry.
C28_SetReplaces ==
    [][\A p \in Callers :
        (/\ ctask[p].pc = "locked"
         /\ ctask[p].op = "set"
         /\ ctask'[p].pc = "exit")
            => LET c == ctask[p] IN
               /\ DOMAIN store' = DOMAIN store \cup {c.key}
               /\ store'[c.key] = [value |-> c.value, expires_at |-> c.clock + c.ttl]
               /\ \A k \in DOMAIN store \ {c.key} : store'[k] = store[k]
               /\ \A t \in 0..MaxTime :
                      /\ GetReturn(store', c.key, t) \in {None, Some(c.value)}
                      /\ t < c.clock + c.ttl
                             => GetReturn(store', c.key, t) = Some(c.value)]_vars

C28_Witness ==
    \E p \in Callers :
        /\ ctask[p].pc = "exit"
        /\ ctask[p].op = "set"
        /\ ctask[p].key \in DOMAIN ctask[p].before
        /\ ctask[p].before[ctask[p].key].value # store[ctask[p].key].value
        /\ ctask[p].before[ctask[p].key].expires_at > store[ctask[p].key].expires_at
        /\ Cardinality(DOMAIN store) = 2

\* C29: a get of a key whose entry was stored by set with ttl <= 0 returns
\* absent, at whatever time the get is made.
C29_NonPositiveTtlExpiresAtOnce ==
    \A p \in Callers :
        LET c == ctask[p] IN
        (c.pc = "exit" /\ c.op = "get" /\ c.set # None /\ c.set.ttl <= 0)
            => c.ret = None

\* C30: invalidate_prefix(prefix) returns the number of entries it removed,
\* which is the number of keys starting with prefix in the mapping when it
\* ran, expired entries included; what it leaves is the rest of that
\* mapping, unchanged; and while it is inside its access to the mapping no
\* other caller takes a step.
C30_PrefixCountIsSnapshot ==
    /\ [](\A p \in Callers :
              LET c == ctask[p] IN
              (c.pc = "exit" /\ c.op = "invalidate_prefix")
                  => /\ c.ret = Cardinality(DOMAIN c.before \ DOMAIN store)
                     /\ c.ret = Cardinality({k \in DOMAIN c.before :
                                                StartsWith(k, c.key)})
                     /\ DOMAIN store \subseteq DOMAIN c.before
                     /\ \A k \in DOMAIN store :
                            ~StartsWith(k, c.key) /\ store[k] = c.before[k])
    /\ [][\A p \in Callers :
              (Inside(p) /\ ctask[p].op = "invalidate_prefix")
                  => /\ \A q \in Callers \ {p} : ctask'[q] = ctask[q]
                     /\ ctask'[p].pc = "exit" /\ ctask[p].pc = "exit"
                            => store' = store]_vars

C30_Witness ==
    \E p \in Callers :
        LET c == ctask[p] IN
        /\ c.pc = "exit" /\ c.op = "invalidate_prefix"
        /\ c.ret = 1
        /\ \E k \in DOMAIN c.before \ DOMAIN store : c.before[k].expires_at < now
        /\ store # EmptyMap

(***************************************************************************)
(* Further claims about the cached reads (Spec).                           *)
(***************************************************************************)

\* A read request of task p starts with this step.
ReadBegins(p) ==
    req[p].pc = "idle" /\ req'[p].pc # "idle" /\ req'[p].kind \in ReadKinds

\* C31: an empty result is cached like any other.  A miss whose query
\* returned no rows stores the empty list under its key with the TTL of its
\* kind; that entry stays as it is until a write's invalidation removes it,
\* a lookup finds it past its expiry, or a request that overlapped a commit
\* stores rows queried from another store state; and a request for the key
\* that starts before the entry's expiry is served the empty list from the
\* cache: it changes neither the cache nor the store and never awaits a
\* query.
C31_EmptyResultIsCached ==
    [][/\ \A p \in Tasks :
            /\ (req[p].pc = "fetched" /\ req'[p].pc = "done"
                    /\ Len(req[p].rows) = 0)
                   => /\ req'[p].result = << >>
                      /\ req[p].key \in DOMAIN store'
                      /\ store'[req[p].key] =
                             [value |-> << >>,
                              expires_at |-> now + ReadTtl(req[p].kind)]
            /\ ReadBegins(p)
                   => LET key == ReadKey(req'[p].kind, req'[p].args) IN
                      (/\ key \in DOMAIN store
                       /\ Len(store[key].value) = 0
                       /\ now < store[key].expires_at)
                          => /\ req'[p].pc = "done"
                             /\ req'[p].hit
                             /\ req'[p].result = << >>
                             /\ store' = store
                             /\ db' = db
       /\ \A k \in DOMAIN store :
            (Len(store[k].value) = 0
                 /\ (k \notin DOMAIN store' \/ store'[k] # store[k]))
               => \/ hist'.inval > hist.inval
                  \/ /\ store[k].expires_at < now
                     /\ \E p \in Tasks :
                            ReadBegins(p) /\ ReadKey(req'[p].kind, req'[p].args) = k
                  \/ /\ k \in DOMAIN store'
                     /\ \E p \in Tasks :
                            /\ req[p].pc = "fetched" /\ req'[p].pc = "done"
                            /\ req[p].key = k
                            /\ store'[k].value = req[p].rows
                            /\ (Len(req[p].rows) > 0
                                    => req[p].qver # meta[k].ver)]_vars

\* A report requested at time 0 missed and had no row; no product was
\* written since, and a second request for the same report, 61 seconds
\* later and within the TTL of the entry, is served the empty list from the
\* cache.
C31_Witness ==
    \E p \in Tasks :
        /\ req[p].pc = "done"
        /\ req[p].kind = "report"
        /\ req[p].hit
        /\ req[p].result = << >>
        /\ req[p].entry.t0 = 0
        /\ req[p].clock > 0
        /\ hist.writes = 0
        /\ hist.reads = 2
        /\ db.products = EmptyMap

\* C32: for each cache key the stored content never goes backwards: when
\* the entry present under a key holds rows queried from the store state
\* after a product write W that has committed, invalidated and returned, no
\* set replaces it by rows queried from a store state before W.
C32_ContentNeverGoesBackwards ==
    [][\A k \in DOMAIN store \cap DOMAIN store' :
           \A w \in hist.done :
               meta[k].ver >= w.ver => meta'[k].ver >= w.ver]_vars

====
